---- MODULE Spec2Model ----
(***************************************************************************)
(* WordPress Jobs Monitor: one fetch / diff / notify / persist cycle per   *)
(* run (src/monitor.js and its second variant src/unnamed/part_000).       *)
(*                                                                         *)
(* Strings are sequences of one-character strings, so that trim(),         *)
(* startsWith(), template concatenation, JSON.stringify and JSON.parse are *)
(* computed character by character as the JavaScript does.                 *)
(***************************************************************************)
EXTENDS Integers, Sequences, FiniteSets, TLC

(* ------------------------------------------------------------------ *)
(* Bounds of the model                                                 *)
(* ------------------------------------------------------------------ *)

\* Largest number of listing containers on one fetched page.
MaxContainers == 2

\* Largest number of ids in the file the first run finds.
MaxInitSeen == 2

(* ------------------------------------------------------------------ *)
(* JavaScript strings                                                  *)
(* ------------------------------------------------------------------ *)

\* The value of attr('href') on an element without that attribute.
Undefined == <<"undefined">>

EmptyString == <<>>

\* JavaScript truthiness of a string-or-undefined value.
Truthy(v) == v # Undefined /\ v # EmptyString

\* Characters String.prototype.trim() strips.
WhiteSpace == {" ", "\n", "\t"}

RECURSIVE TrimStart(_)
TrimStart(s) ==
    IF s = <<>> THEN <<>>
    ELSE IF Head(s) \in WhiteSpace THEN TrimStart(Tail(s)) ELSE s

RECURSIVE TrimEnd(_)
TrimEnd(s) ==
    IF s = <<>> THEN <<>>
    ELSE IF s[Len(s)] \in WhiteSpace THEN TrimEnd(SubSeq(s, 1, Len(s) - 1)) ELSE s

\* String.prototype.trim()
Trim(s) == TrimEnd(TrimStart(s))

\* String.prototype.startsWith(p)
StartsWith(s, p) == Len(s) >= Len(p) /\ SubSeq(s, 1, Len(p)) = p

\* a || b on strings
OrElse(a, b) == IF Truthy(a) THEN a ELSE b

\* const JOBS_URL origin used by the template literal `https://jobs.wordpress.net${link}`
ORIGIN == <<"h", "t", "t", "p", "s", ":", "/", "/", "j", "o", "b", "s", ".", "w", "o", "r", "d", "p", "r", "e", "s", "s", ".", "n", "e", "t">>

\* The literal tested by link.startsWith('http')
HTTP == <<"h", "t", "t", "p">>

\* Sentinels for absent descriptive fields.
NotSpecified == <<"N", "o", "t", " ", "s", "p", "e", "c", "i", "f", "i", "e", "d">>
RemoteNotSpecified == <<"R", "e", "m", "o", "t", "e", "/", "N", "o", "t", " ", "s", "p", "e", "c", "i", "f", "i", "e", "d">>
NA == <<"N", "/", "A">>

(* ------------------------------------------------------------------ *)
(* JavaScript Set of strings: a duplicate-free sequence in insertion   *)
(* order                                                               *)
(* ------------------------------------------------------------------ *)

Elems(s) == {s[i] : i \in 1..Len(s)}

\* Set.prototype.has
SetHas(set, x) == x \in Elems(set)

\* Set.prototype.add
SetAdd(set, x) == IF SetHas(set, x) THEN set ELSE Append(set, x)

RECURSIVE AddEach(_, _)
AddEach(set, arr) ==
    IF arr = <<>> THEN set ELSE AddEach(SetAdd(set, Head(arr)), Tail(arr))

\* new Set(iterable)
NewSet(arr) == AddEach(<<>>, arr)

(* ------------------------------------------------------------------ *)
(* JSON text of an array of strings                                    *)
(* ------------------------------------------------------------------ *)

Quote == "\""
Backslash == "\\"

\* Faulty variant of EscapeChar: the quote is written unescaped.
EscapeCharUnquoted(c) ==
    IF c = Backslash THEN <<Backslash, Backslash>>
    ELSE IF c = "\n" THEN <<Backslash, "n">>
    ELSE IF c = "\t" THEN <<Backslash, "t">>
    ELSE <<c>>

\* JSON.stringify's escaping of one character of a string.
EscapeChar(c) ==
    IF c = Quote THEN <<Backslash, Quote>>
    ELSE IF c = Backslash THEN <<Backslash, Backslash>>
    ELSE IF c = "\n" THEN <<Backslash, "n">>
    ELSE IF c = "\t" THEN <<Backslash, "t">>
    ELSE <<c>>

RECURSIVE EscapeString(_)
EscapeString(s) ==
    IF s = <<>> THEN <<>> ELSE EscapeChar(Head(s)) \o EscapeString(Tail(s))

\* JSON.stringify of one string.
QuoteString(s) == <<Quote>> \o EscapeString(s) \o <<Quote>>

RECURSIVE StringifyItems(_)
StringifyItems(arr) ==
    IF Len(arr) = 1 THEN <<" ", " ">> \o QuoteString(arr[1])
    ELSE <<" ", " ">> \o QuoteString(Head(arr)) \o <<",", "\n">> \o StringifyItems(Tail(arr))

\* JSON.stringify(arr, null, 2) for an array of strings.
Stringify(arr) ==
    IF arr = <<>> THEN <<"[", "]">>
    ELSE <<"[", "\n">> \o StringifyItems(arr) \o <<"\n", "]">>

\* Result of a failed JSON.parse (a thrown SyntaxError).
ParseError == [ok |-> FALSE, val |-> <<>>, next |-> 0]

RECURSIVE SkipWs(_, _)
SkipWs(t, i) ==
    IF i <= Len(t) /\ t[i] \in WhiteSpace THEN SkipWs(t, i + 1) ELSE i

\* The body of a JSON string starting after its opening quote at t[i - 1].
RECURSIVE ParseString(_, _, _)
ParseString(t, i, acc) ==
    IF i > Len(t) THEN ParseError
    ELSE IF t[i] = Quote THEN [ok |-> TRUE, val |-> acc, next |-> i + 1]
    ELSE IF t[i] = Backslash THEN
        IF i + 1 > Len(t) THEN ParseError
        ELSE IF t[i + 1] \in {Quote, Backslash, "/"}
            THEN ParseString(t, i + 2, Append(acc, t[i + 1]))
        ELSE IF t[i + 1] = "n" THEN ParseString(t, i + 2, Append(acc, "\n"))
        ELSE IF t[i + 1] = "t" THEN ParseString(t, i + 2, Append(acc, "\t"))
        ELSE ParseError
    ELSE IF t[i] \in {"\n", "\t"} THEN ParseError
    ELSE ParseString(t, i + 1, Append(acc, t[i]))

\* Nothing but white space may follow the closing bracket.
AtEnd(t, i) == SkipWs(t, i) = Len(t) + 1

\* The elements of a JSON array, t[i] being the first character of an element.
RECURSIVE ParseItems(_, _, _)
ParseItems(t, i, acc) ==
    IF i > Len(t) \/ t[i] # Quote THEN ParseError
    ELSE LET r == ParseString(t, i + 1, <<>>)
             k == SkipWs(t, r.next)
         IN  IF ~r.ok \/ k > Len(t) THEN ParseError
             ELSE IF t[k] = "," THEN ParseItems(t, SkipWs(t, k + 1), Append(acc, r.val))
             ELSE IF t[k] = "]" /\ AtEnd(t, k + 1)
                 THEN [ok |-> TRUE, val |-> Append(acc, r.val), next |-> k + 1]
             ELSE ParseError

\* JSON.parse(text), for the documents that are arrays of strings.
Parse(t) ==
    LET i == SkipWs(t, 1)
    IN  IF i > Len(t) \/ t[i] # "[" THEN ParseError
        ELSE LET j == SkipWs(t, i + 1)
             IN  IF j > Len(t) THEN ParseError
                 ELSE IF t[j] = "]"
                     THEN IF AtEnd(t, j + 1) THEN [ok |-> TRUE, val |-> <<>>, next |-> j + 1]
                          ELSE ParseError
                 ELSE ParseItems(t, j, <<>>)

(* ------------------------------------------------------------------ *)
(* SeenStore: STORAGE_FILE and loadSeenJobs / saveSeenJobs             *)
(* ------------------------------------------------------------------ *)

\* The state of STORAGE_FILE when it does not exist (readFile fails with ENOENT).
Missing == <<"ENOENT">>

\* loadSeenJobs: readOk is whether fs.readFile delivers the file's content.
loadSeenJobs(content, readOk) ==
    IF content = Missing \/ ~readOk THEN <<>>
    ELSE LET r == Parse(content)
         IN  IF r.ok THEN NewSet(r.val) ELSE <<>>

\* Whether loadSeenJobs ends in its catch block although the file exists.
LoadFailed(content, readOk) ==
    content # Missing /\ (~readOk \/ ~Parse(content).ok)

\* The text saveSeenJobs hands to fs.writeFile.
saveSeenJobs(seen) == Stringify(seen)

\* The identifiers a later loadSeenJobs finds in the file.
FileIds(content) == Elems(loadSeenJobs(content, TRUE))

(* ------------------------------------------------------------------ *)
(* Extractor: what cheerio reports of one listing container            *)
(* ------------------------------------------------------------------ *)

\* The two programs of the repository.
Variants == {"monitor", "part_000"}

\* A queried anchor: whether the selection is non-empty, its text() and attr('href').
Anchor(found, text, href) == [found |-> found, text |-> text, href |-> href]

NoAnchor == Anchor(FALSE, <<>>, Undefined)

\* link.startsWith('http') ? link : `https://jobs.wordpress.net${link}`
FullLink(link) == IF StartsWith(link, HTTP) THEN link ELSE ORIGIN \o link

\* monitor.js: title and link of one container (primary anchors, then the fallback).
ResolveMonitor(c) ==
    LET title1 == IF c.titleLink.found THEN Trim(c.titleLink.text) ELSE <<>>
        link1  == IF c.titleLink.found THEN c.titleLink.href ELSE <<>>
        useAny == ~Truthy(link1) /\ c.anyLink.found
    IN  [title |-> IF useAny THEN OrElse(Trim(c.anyLink.text), Trim(c.label)) ELSE title1,
         link  |-> IF useAny THEN c.anyLink.href ELSE link1]

\* monitor.js: the records one container pushes (none or one).
ListingMonitor(c) ==
    LET r == ResolveMonitor(c)
    IN  IF Truthy(r.title) /\ Truthy(r.link)
        THEN << [id         |-> FullLink(r.link),
                 title      |-> r.title,
                 link       |-> FullLink(r.link),
                 company    |-> OrElse(Trim(c.company), NotSpecified),
                 location   |-> OrElse(Trim(c.location), RemoteNotSpecified),
                 datePosted |-> OrElse(Trim(c.date), NA)] >>
        ELSE <<>>

\* part_000: classes that mark a header row.
HeaderClasses == {"row-head", "job-list-col-labels"}

\* part_000: title and link of one row.
ResolvePart(c) ==
    IF c.classes \cap HeaderClasses # {} \/ ~c.link.found
    THEN [title |-> <<>>, link |-> Undefined]
    ELSE [title |-> Trim(c.link.text), link |-> c.link.href]

\* part_000: the records one row pushes (none or one).
ListingPart(c) ==
    LET r == ResolvePart(c)
    IN  IF ~Truthy(r.title) \/ ~Truthy(r.link) THEN <<>>
        ELSE << [id         |-> FullLink(r.link),
                 title      |-> r.title,
                 link       |-> FullLink(r.link),
                 jobType    |-> OrElse(Trim(c.type), NotSpecified),
                 location   |-> OrElse(Trim(c.location), NA),
                 datePosted |-> OrElse(Trim(c.date), NA)] >>

Resolve(v, c) == IF v = "monitor" THEN ResolveMonitor(c) ELSE ResolvePart(c)

Listing(v, c) == IF v = "monitor" THEN ListingMonitor(c) ELSE ListingPart(c)

\* jobElements.each(...) / $('.row').each(...): every container, in document order.
RECURSIVE EachListing(_, _)
EachListing(v, containers) ==
    IF containers = <<>> THEN <<>>
    ELSE Listing(v, Head(containers)) \o EachListing(v, Tail(containers))

\* fetchJobs: httpOk is whether axios.get and cheerio.load deliver the page.
fetchJobs(v, containers, httpOk) ==
    IF httpOk THEN EachListing(v, containers) ELSE <<>>

(* ------------------------------------------------------------------ *)
(* Differ and Notifier                                                 *)
(* ------------------------------------------------------------------ *)

\* Faulty variant of Filter: has() is asked for the record, never a member, not its id.
FilterByRecord(jobs, seen) == jobs

\* currentJobs.filter(job => !seenJobs.has(job.id))
RECURSIVE Filter(_, _)
Filter(jobs, seen) ==
    IF jobs = <<>> THEN <<>>
    ELSE IF ~SetHas(seen, Head(jobs).id)
         THEN <<Head(jobs)>> \o Filter(Tail(jobs), seen)
         ELSE Filter(Tail(jobs), seen)

\* Faulty variant of AddAll: only the first new job is added.
AddFirstOnly(seen, jobs) ==
    IF jobs = <<>> THEN seen ELSE SetAdd(seen, Head(jobs).id)

\* newJobs.forEach(job => seenJobs.add(job.id))
RECURSIVE AddAll(_, _)
AddAll(seen, jobs) ==
    IF jobs = <<>> THEN seen ELSE AddAll(SetAdd(seen, Head(jobs).id), Tail(jobs))

\* The digest handed to transporter.sendMail: the count of the subject line,
\* its plural suffix, and one block per job.
MailOptions(jobs) ==
    [count  |-> Len(jobs),
     plural |-> Len(jobs) > 1,
     blocks |-> [i \in 1..Len(jobs) |-> [title |-> jobs[i].title, link |-> jobs[i].link]]]

(* ------------------------------------------------------------------ *)
(* Inputs: pages the site can serve, environments, stored files        *)
(* ------------------------------------------------------------------ *)

RelLink == <<"/", "j", "o", "b", "/", "1">>
AbsLink == <<"h", "t", "t", "p", ":", "/", "/", "x", "/", "j", "o", "b", "/", "2">>
HttpRelLink == <<"h", "t", "t", "p", "d", "/", "j", "o", "b", "/", "3">>
FtpLink == <<"f", "t", "p", ":", "/", "/", "x", "/", "j", "o", "b", "/", "4">>
BlankLink == <<" ">>
QuotedLink == <<"/", "j", "o", "b", "/", "\"", "\\">>
GoneLink == <<"h", "t", "t", "p", "s", ":", "/", "/", "x", "/", "j", "o", "b", "/", "0">>

TitleDev == <<" ", "D", "e", "v", " ">>
TitleQA == <<"Q", "A">>
Blank == <<" ", " ">>

\* Sequences over S of length at most n.
SeqsUpTo(S, n) == UNION {[1..k -> S] : k \in 0..n}

\* Duplicate-free non-empty sequences over S of length at most n.
DistinctSeqs(S, n) ==
    {q \in SeqsUpTo(S, n) : q # <<>> /\ \A i, j \in 1..Len(q) : i # j => q[i] # q[j]}

\* A listing container as monitor.js queries it.
MonitorContainer(titleLink, anyLink, label) ==
    [titleLink |-> titleLink, anyLink |-> anyLink, label |-> label,
     company |-> Blank, location |-> <<"E", "U">>, date |-> <<>>]

\* A row as part_000 queries it.
PartRow(classes, link) ==
    [classes |-> classes, link |-> link,
     date |-> <<>>, type |-> <<"F", "T">>, location |-> Blank]

\* Containers of the pages of a whole run.
MainContainers(v) ==
    IF v = "monitor"
    THEN {MonitorContainer(Anchor(TRUE, TitleDev, RelLink), Anchor(TRUE, TitleDev, RelLink), <<>>),
          MonitorContainer(Anchor(TRUE, <<>>, Undefined), Anchor(TRUE, Blank, AbsLink), TitleQA),
          MonitorContainer(Anchor(TRUE, TitleQA, QuotedLink), Anchor(TRUE, TitleQA, QuotedLink), <<>>),
          MonitorContainer(NoAnchor, NoAnchor, TitleQA)}
    ELSE {PartRow({}, Anchor(TRUE, TitleDev, RelLink)),
          PartRow({}, Anchor(TRUE, TitleQA, AbsLink)),
          PartRow({}, Anchor(TRUE, TitleQA, QuotedLink)),
          PartRow({"row-head"}, Anchor(TRUE, TitleQA, RelLink))}

MainPages(v) == SeqsUpTo(MainContainers(v), MaxContainers)

\* The identifiers the pages of a whole run can yield.
KnownIds == {ORIGIN \o RelLink, AbsLink, ORIGIN \o QuotedLink}

\* The identifier of a posting that has left the board.
GoneId == GoneLink

\* Stored files a first modelled run can find: none, or one an earlier run wrote.
InitFiles == {Missing} \cup {saveSeenJobs(q) : q \in DistinctSeqs(KnownIds \cup {GoneId}, MaxInitSeen)}

\* Presence of the three required environment variables.
Envs == [EMAIL_USER : BOOLEAN, EMAIL_PASS : BOOLEAN, EMAIL_TO : BOOLEAN]

(* ------------------------------------------------------------------ *)
(* State                                                               *)
(* ------------------------------------------------------------------ *)

VARIABLES
    variant,      \* which of the two programs runs
    env,          \* process.env: presence of EMAIL_USER, EMAIL_PASS, EMAIL_TO
    pc,           \* position of main(): the await it is suspended at
    exitCode,     \* the process's exit status, read when pc = "exit"
    file,         \* content of STORAGE_FILE, or Missing
    page,         \* listing containers of the page axios delivered
    seenJobs,     \* const seenJobs (a Set)
    currentJobs,  \* const currentJobs
    newJobs,      \* const newJobs
    outbox,       \* digests transporter.sendMail delivered in this run
    calls,        \* this run's external calls, by kind
    failed,       \* external calls of this run that failed
    fileAtStart,  \* content of STORAGE_FILE when this run started
    loadedSeen,   \* what loadSeenJobs returned in this run
    notified,     \* ids in the digests handed to sendMail so far, over all runs
    ioFailed      \* a read of the existing file or a write has failed, in some run

vars == <<variant, env, pc, exitCode, file, page, seenJobs, currentJobs, newJobs,
          outbox, calls, failed, fileAtStart, loadedSeen, notified, ioFailed>>

NoCalls == [http |-> 0, mail |-> 0, read |-> 0, write |-> 0]

Called(kind) == [calls EXCEPT ![kind] = @ + 1]

\* The state of a process that has just been started.
Fresh ==
    /\ pc = "main"
    /\ exitCode = 0
    /\ page = <<>>
    /\ seenJobs = <<>>
    /\ currentJobs = <<>>
    /\ newJobs = <<>>
    /\ outbox = <<>>
    /\ calls = NoCalls
    /\ failed = {}
    /\ loadedSeen = <<>>

Init ==
    /\ variant \in Variants
    /\ env \in Envs
    /\ file \in InitFiles
    /\ fileAtStart = file
    /\ notified = {}
    /\ ioFailed = FALSE
    /\ Fresh

(* ------------------------------------------------------------------ *)
(* main()                                                              *)
(* ------------------------------------------------------------------ *)

\* Faulty variant of ConfigPresent: the recipient is not checked.
ConfigPresentNoRecipient == env.EMAIL_USER /\ env.EMAIL_PASS

\* if (!EMAIL_USER || !EMAIL_PASS || !EMAIL_TO) process.exit(1)
ConfigPresent == env.EMAIL_USER /\ env.EMAIL_PASS /\ env.EMAIL_TO

Validate ==
    /\ pc = "main"
    /\ IF ConfigPresent
       THEN pc' = "load" /\ exitCode' = exitCode
       ELSE pc' = "exit" /\ exitCode' = 1
    /\ UNCHANGED <<variant, env, file, page, seenJobs, currentJobs, newJobs, outbox,
                   calls, failed, fileAtStart, loadedSeen, notified, ioFailed>>

\* const seenJobs = await loadSeenJobs()
Load ==
    /\ pc = "load"
    /\ \E readOk \in BOOLEAN :
        /\ seenJobs' = loadSeenJobs(file, readOk)
        /\ loadedSeen' = loadSeenJobs(file, readOk)
        /\ failed' = IF LoadFailed(file, readOk) THEN failed \cup {"read"} ELSE failed
        /\ ioFailed' = (ioFailed \/ LoadFailed(file, readOk))
    /\ calls' = Called("read")
    /\ pc' = "fetch"
    /\ UNCHANGED <<variant, env, exitCode, file, page, currentJobs, newJobs, outbox,
                   fileAtStart, notified>>

\* const currentJobs = await fetchJobs(), the site serving one of `pages`.
FetchFrom(pages) ==
    /\ pc = "fetch"
    /\ \E httpOk \in BOOLEAN, p \in pages :
        /\ page' = IF httpOk THEN p ELSE <<>>
        /\ currentJobs' = fetchJobs(variant, p, httpOk)
        /\ failed' = IF httpOk THEN failed ELSE failed \cup {"fetch"}
    /\ calls' = Called("http")
    /\ pc' = "check"
    /\ UNCHANGED <<variant, env, exitCode, file, seenJobs, newJobs, outbox,
                   fileAtStart, loadedSeen, notified, ioFailed>>

Fetch == FetchFrom(MainPages(variant))

\* Faulty variant of NoJobs: the early return is missing.
NoJobsNoReturn ==
    /\ pc = "check"
    /\ currentJobs = <<>>
    /\ pc' = "mail"
    /\ UNCHANGED <<variant, env, exitCode, file, page, seenJobs, currentJobs, newJobs, outbox,
                   calls, failed, fileAtStart, loadedSeen, notified, ioFailed>>

\* if (currentJobs.length === 0) return
NoJobs ==
    /\ pc = "check"
    /\ currentJobs = <<>>
    /\ pc' = "exit"
    /\ exitCode' = 0
    /\ UNCHANGED <<variant, env, file, page, seenJobs, currentJobs, newJobs, outbox,
                   calls, failed, fileAtStart, loadedSeen, notified, ioFailed>>

\* Faulty variant of Diff: the test is newJobs.length >= 0.
DiffAlwaysNotify ==
    /\ pc = "check"
    /\ currentJobs # <<>>
    /\ newJobs' = Filter(currentJobs, seenJobs)
    /\ pc' = "mail"
    /\ UNCHANGED <<variant, env, exitCode, file, page, seenJobs, currentJobs, outbox,
                   calls, failed, fileAtStart, loadedSeen, notified, ioFailed>>

\* const newJobs = currentJobs.filter(...); if (newJobs.length > 0) ... else ...
Diff ==
    /\ pc = "check"
    /\ currentJobs # <<>>
    /\ newJobs' = Filter(currentJobs, seenJobs)
    /\ IF Len(newJobs') > 0
       THEN pc' = "mail" /\ exitCode' = exitCode
       ELSE pc' = "exit" /\ exitCode' = 0
    /\ UNCHANGED <<variant, env, file, page, seenJobs, currentJobs, outbox,
                   calls, failed, fileAtStart, loadedSeen, notified, ioFailed>>

\* Faulty variant of Mail: no try/catch around the send, so a failed send
\* reaches main().catch and the process exits with status 1.
MailUncaught ==
    /\ pc = "mail"
    /\ calls' = Called("mail")
    /\ notified' = notified \cup {newJobs[i].id : i \in 1..Len(newJobs)}
    /\ \/ /\ outbox' = Append(outbox, MailOptions(newJobs))
          /\ seenJobs' = AddAll(seenJobs, newJobs)
          /\ pc' = "save"
          /\ UNCHANGED <<failed, exitCode>>
       \/ /\ failed' = failed \cup {"mail"}
          /\ pc' = "exit"
          /\ exitCode' = 1
          /\ UNCHANGED <<outbox, seenJobs>>
    /\ UNCHANGED <<variant, env, file, page, currentJobs, newJobs,
                   fileAtStart, loadedSeen, ioFailed>>

\* try { await sendEmailNotification(newJobs) } catch { log };
\* newJobs.forEach(job => seenJobs.add(job.id))
Mail ==
    /\ pc = "mail"
    /\ \E sent \in BOOLEAN :
        /\ outbox' = IF sent THEN Append(outbox, MailOptions(newJobs)) ELSE outbox
        /\ failed' = IF sent THEN failed ELSE failed \cup {"mail"}
    /\ calls' = Called("mail")
    /\ notified' = notified \cup {newJobs[i].id : i \in 1..Len(newJobs)}
    /\ seenJobs' = AddAll(seenJobs, newJobs)
    /\ pc' = "save"
    /\ UNCHANGED <<variant, env, exitCode, file, page, currentJobs, newJobs,
                   fileAtStart, loadedSeen, ioFailed>>

\* await saveSeenJobs(seenJobs); a rejected write reaches main().catch: process.exit(1).
\* A failed fs.writeFile leaves the file as it was or truncated.
SaveDone ==
    /\ pc = "save"
    /\ file' = saveSeenJobs(seenJobs)
    /\ exitCode' = 0
    /\ calls' = Called("write")
    /\ pc' = "exit"
    /\ UNCHANGED <<variant, env, page, seenJobs, currentJobs, newJobs, outbox,
                   failed, fileAtStart, loadedSeen, notified, ioFailed>>

SaveFailed ==
    /\ pc = "save"
    /\ file' \in {file, <<>>}
    /\ exitCode' = 1
    /\ failed' = failed \cup {"write"}
    /\ ioFailed' = TRUE
    /\ calls' = Called("write")
    /\ pc' = "exit"
    /\ UNCHANGED <<variant, env, page, seenJobs, currentJobs, newJobs, outbox,
                   fileAtStart, loadedSeen, notified>>

Save == SaveDone \/ SaveFailed

\* The external scheduler starts the next invocation after this one has exited.
NextRun ==
    /\ pc = "exit"
    /\ env' \in Envs
    /\ fileAtStart' = file
    /\ pc' = "main"
    /\ exitCode' = 0
    /\ page' = <<>>
    /\ seenJobs' = <<>>
    /\ currentJobs' = <<>>
    /\ newJobs' = <<>>
    /\ outbox' = <<>>
    /\ calls' = NoCalls
    /\ failed' = {}
    /\ loadedSeen' = <<>>
    /\ UNCHANGED <<variant, file, notified, ioFailed>>

Next == Validate \/ Load \/ Fetch \/ NoJobs \/ Diff \/ Mail \/ Save \/ NextRun

Spec == Init /\ [][Next]_vars

(* ------------------------------------------------------------------ *)
(* The Extractor alone, over a wider range of markup                   *)
(* ------------------------------------------------------------------ *)

\* href values that contain the job-path marker "/job/".
JobHrefs == {RelLink, AbsLink, HttpRelLink, FtpLink}

\* href values that do not: no attribute, an empty one, a blank one.
OtherHrefs == {Undefined, <<>>, BlankLink}

LinkTexts == {<<>>, Blank, TitleDev, TitleQA}

\* monitor.js: the primary selector list includes a[href*="/job/"], so a container
\* with such a link has a primary anchor, and a primary anchor whose href holds
\* the marker is itself such a link.
ExtractMonitorContainers ==
    {MonitorContainer(NoAnchor, NoAnchor, TitleQA)}
    \cup {MonitorContainer(Anchor(TRUE, t, h), Anchor(TRUE, t, h), <<>>) :
            t \in LinkTexts, h \in JobHrefs}
    \cup {MonitorContainer(Anchor(TRUE, t, h), a, l) :
            t \in {<<>>, TitleDev}, h \in OtherHrefs,
            a \in {NoAnchor, Anchor(TRUE, <<>>, RelLink), Anchor(TRUE, TitleQA, AbsLink)},
            l \in {<<>>, TitleDev}}

ExtractPartRows ==
    {PartRow({}, NoAnchor), PartRow({"row-head"}, Anchor(TRUE, TitleQA, RelLink)),
     PartRow({"job-list-col-labels"}, NoAnchor)}
    \cup {PartRow({}, Anchor(TRUE, t, h)) : t \in LinkTexts, h \in JobHrefs \cup OtherHrefs}

ExtractContainers(v) ==
    IF v = "monitor" THEN ExtractMonitorContainers ELSE ExtractPartRows

ExtractPages(v) == SeqsUpTo(ExtractContainers(v), MaxContainers)

ExtractInit ==
    /\ variant \in Variants
    /\ env = [EMAIL_USER |-> TRUE, EMAIL_PASS |-> TRUE, EMAIL_TO |-> TRUE]
    /\ pc = "fetch"
    /\ exitCode = 0
    /\ file = Missing
    /\ fileAtStart = Missing
    /\ page = <<>>
    /\ seenJobs = <<>>
    /\ currentJobs = <<>>
    /\ newJobs = <<>>
    /\ outbox = <<>>
    /\ calls = [NoCalls EXCEPT !.read = 1]
    /\ failed = {}
    /\ loadedSeen = <<>>
    /\ notified = {}
    /\ ioFailed = FALSE

ExtractStep == FetchFrom(ExtractPages(variant))

ExtractNext == ExtractStep

SpecExtract == ExtractInit /\ [][ExtractNext]_vars

(* ------------------------------------------------------------------ *)
(* The SeenStore alone: a save followed by a load, both succeeding      *)
(* ------------------------------------------------------------------ *)

\* Largest seen set of the store's round trip.
MaxStored == 2

StoreStrings ==
    {ORIGIN \o RelLink, AbsLink, <<"a">>, <<Quote>>, <<Backslash>>, <<Backslash, Quote>>,
     <<"a", Quote, ",", Quote, "b">>, <<"]">>, <<" ">>, <<"\n", "\t">>, <<Backslash, "n">>}

StoreSets == {<<>>} \cup DistinctSeqs(StoreStrings, MaxStored)

StoreInit ==
    /\ variant \in Variants
    /\ env = [EMAIL_USER |-> TRUE, EMAIL_PASS |-> TRUE, EMAIL_TO |-> TRUE]
    /\ pc = "save"
    /\ exitCode = 0
    /\ file = Missing
    /\ fileAtStart = Missing
    /\ page = <<>>
    /\ seenJobs \in StoreSets
    /\ currentJobs = <<>>
    /\ newJobs = <<>>
    /\ outbox = <<>>
    /\ calls = NoCalls
    /\ failed = {}
    /\ loadedSeen = <<>>
    /\ notified = {}
    /\ ioFailed = FALSE

\* loadSeenJobs() after the save, fs.readFile succeeding.
Reload ==
    /\ pc = "exit"
    /\ calls.read = 0
    /\ loadedSeen' = loadSeenJobs(file, TRUE)
    /\ calls' = Called("read")
    /\ UNCHANGED <<variant, env, pc, exitCode, file, page, seenJobs, currentJobs, newJobs,
                   outbox, failed, fileAtStart, notified, ioFailed>>

StoreNext == SaveDone \/ Reload

SpecStore == StoreInit /\ [][StoreNext]_vars

(* ------------------------------------------------------------------ *)
(* Properties                                                          *)
(* ------------------------------------------------------------------ *)

Ids(jobs) == {jobs[i].id : i \in 1..Len(jobs)}

\* Indices of `jobs` whose id is not a member of `seen`.
UnseenIdx(jobs, seen) == {i \in 1..Len(jobs) : jobs[i].id \notin Elems(seen)}

\* Position of index i among the indices of I, counted from 1.
Rank(I, i) == Cardinality({j \in I : j <= i})

\* `result` is the subsequence of `jobs` at the indices I, in order.
IsSubsequenceAt(result, jobs, I) ==
    /\ Len(result) = Cardinality(I)
    /\ \A i \in I : result[Rank(I, i)] = jobs[i]

\* C1: the step that computes newJobs yields exactly the jobs whose id is not in
\* the loaded seen set, in their original order with duplicates kept, yields the
\* empty list when every id is in the seen set, and changes neither currentJobs
\* nor seenJobs.
C1_DifferExact ==
    [][(pc = "check" /\ currentJobs # <<>>) =>
        /\ IsSubsequenceAt(newJobs', currentJobs, UnseenIdx(currentJobs, seenJobs))
        /\ (Ids(currentJobs) \subseteq Elems(seenJobs) => newJobs' = <<>>)
        /\ currentJobs' = currentJobs
        /\ seenJobs' = seenJobs]_vars

\* A seen job followed by an unseen one: the new-jobs list is the second alone.
C1_Witness ==
    /\ pc = "mail"
    /\ Len(currentJobs) = 2
    /\ currentJobs[1].id \in Elems(loadedSeen)
    /\ newJobs = <<currentJobs[2]>>

\* C2 as stated: when the mail send fails in a run with new jobs, every new id is
\* added to the seen set and written to the file, and the run exits with status 0.
C2_MailFailureStillPersists ==
    (pc = "exit" /\ "mail" \in failed) =>
        /\ newJobs # <<>>
        /\ Ids(newJobs) \subseteq Elems(seenJobs)
        /\ calls.write = 1
        /\ Ids(newJobs) \subseteq FileIds(file)
        /\ exitCode = 0

\* C2 amended: when the mail send fails in a run with new jobs, every new id is
\* added to the seen set and the write of the file is attempted once; when that
\* write succeeds the file holds every new id and the run exits with status 0,
\* and when it fails the run exits with status 1.
C2_MailFailureStillSaves ==
    (pc = "exit" /\ "mail" \in failed) =>
        /\ newJobs # <<>>
        /\ Ids(newJobs) \subseteq Elems(seenJobs)
        /\ calls.write = 1
        /\ IF "write" \in failed
           THEN exitCode = 1
           ELSE Ids(newJobs) \subseteq FileIds(file) /\ exitCode = 0

\* Two distinct new jobs, the send failed, the write succeeded.
C2_Witness ==
    /\ pc = "exit"
    /\ "mail" \in failed
    /\ "write" \notin failed
    /\ Len(newJobs) = 2
    /\ newJobs[1].id # newJobs[2].id

\* C3: when the fetch fails fetchJobs returns the empty list, and in a run whose
\* fetch yields no record no mail send is attempted, the file is not written and
\* keeps its content, and the run exits with status 0.
C3_NoJobsNoEffect ==
    /\ "fetch" \in failed => currentJobs = <<>>
    /\ (calls.http = 1 /\ currentJobs = <<>>) =>
        /\ pc \in {"check", "exit"}
        /\ calls.mail = 0
        /\ outbox = <<>>
        /\ calls.write = 0
        /\ file = fileAtStart
        /\ pc = "exit" => exitCode = 0

\* A run over an existing file has ended after a failed fetch.
C3_Witness ==
    /\ pc = "exit"
    /\ "fetch" \in failed
    /\ file # Missing

\* C4: with any of EMAIL_USER, EMAIL_PASS, EMAIL_TO absent the run exits with
\* status 1 having made no HTTP request, no mail send, no read and no write of
\* the file.
C4_MissingConfigExits ==
    ((~env.EMAIL_USER \/ ~env.EMAIL_PASS \/ ~env.EMAIL_TO) /\ pc # "main") =>
        /\ pc = "exit"
        /\ exitCode = 1
        /\ calls = NoCalls
        /\ outbox = <<>>
        /\ file = fileAtStart

\* Only the recipient is absent, and the run has ended.
C4_Witness ==
    /\ pc = "exit"
    /\ env.EMAIL_USER
    /\ env.EMAIL_PASS
    /\ ~env.EMAIL_TO

\* C5: no step of any run removes an id from the file (writes succeeding),
\* whatever the fetch, mail and file-read outcomes.
C5_NeverLosesEntry ==
    [][("write" \notin failed') => FileIds(file) \subseteq FileIds(file')]_vars

\* Every extracted job is already in the loaded seen set, and the diff is done.
AllSeen ==
    /\ pc \in {"mail", "save", "exit"}
    /\ currentJobs # <<>>
    /\ Ids(currentJobs) \subseteq Elems(loadedSeen)

\* C6: the file is written at most once per run, as the run's last step and only
\* with a non-empty new-jobs list; when every extracted id is already seen, no
\* mail send is attempted and the file is untouched.
C6_WriteOnceOnlyWhenNew ==
    /\ calls.write <= 1
    /\ calls.write = 1 => (pc = "exit" /\ newJobs # <<>>)
    /\ calls.write = 0 => file = fileAtStart
    /\ AllSeen =>
        /\ pc = "exit"
        /\ exitCode = 0
        /\ calls.mail = 0
        /\ outbox = <<>>
        /\ calls.write = 0
        /\ file = fileAtStart

\* A run that extracted two jobs, both already seen.
C6_Witness ==
    /\ AllSeen
    /\ Len(currentJobs) = 2

Letters ==
    {"a", "b", "c", "d", "e", "f", "g", "h", "i", "j", "k", "l", "m",
     "n", "o", "p", "q", "r", "s", "t", "u", "v", "w", "x", "y", "z",
     "A", "B", "C", "D", "E", "F", "G", "H", "I", "J", "K", "L", "M",
     "N", "O", "P", "Q", "R", "S", "T", "U", "V", "W", "X", "Y", "Z"}

Digits == {"0", "1", "2", "3", "4", "5", "6", "7", "8", "9"}

\* An absolute URL starts with a scheme: a letter, then letters, digits, "+",
\* "-" or ".", then ":".
IsAbsolute(s) ==
    \E k \in 2..Len(s) :
        /\ s[k] = ":"
        /\ s[1] \in Letters
        /\ \A j \in 2..(k - 1) : s[j] \in Letters \cup Digits \cup {"+", "-", "."}

\* Indices of the containers of the fetched page that push a record.
EmitIdx == {i \in 1..Len(page) : Listing(variant, page[i]) # <<>>}

\* C7: every emitted record's link is an absolute URL: an absolute resolved link
\* unchanged, a relative one prefixed with https://jobs.wordpress.net.
C7_LinkAbsolute ==
    (pc = "check" /\ "fetch" \notin failed) =>
        \A i \in EmitIdx :
            LET resolved == Resolve(variant, page[i]).link
                emitted  == currentJobs[Rank(EmitIdx, i)].link
            IN  /\ IsAbsolute(emitted)
                /\ IsAbsolute(resolved) => emitted = resolved
                /\ ~IsAbsolute(resolved) => emitted = ORIGIN \o resolved

\* A value that is a string and is non-empty once trimmed.
NonEmptyTrimmed(v) == v # Undefined /\ Trim(v) # <<>>

\* Indices of the containers whose title and link both resolve to such a value.
ResolvedIdx ==
    {i \in 1..Len(page) :
        /\ NonEmptyTrimmed(Resolve(variant, page[i]).title)
        /\ NonEmptyTrimmed(Resolve(variant, page[i]).link)}

\* C8: every emitted record has a title and a link non-empty after trimming and
\* an id equal to its link; the records are those of the containers whose title
\* and link resolve to non-empty trimmed values, one each, in document order.
C8_RecordsWellFormed ==
    (pc = "check" /\ "fetch" \notin failed) =>
        /\ \A k \in 1..Len(currentJobs) :
            /\ Trim(currentJobs[k].title) # <<>>
            /\ Trim(currentJobs[k].link) # <<>>
            /\ currentJobs[k].id = currentJobs[k].link
        /\ Len(currentJobs) = Cardinality(ResolvedIdx)
        /\ \A i \in ResolvedIdx :
            currentJobs[Rank(ResolvedIdx, i)].title = Trim(Resolve(variant, page[i]).title)

\* C9: a seen set saved and then loaded, both succeeding, has the same members.
C9_RoundTrip ==
    (pc = "exit" /\ calls.write = 1 /\ calls.read = 1) =>
        Elems(loadedSeen) = Elems(seenJobs)

\* Two ids were saved and loaded, one of them holding a quote character.
C9_Witness ==
    /\ pc = "exit"
    /\ calls.read = 1
    /\ Len(seenJobs) = 2
    /\ \E i \in 1..2 : Quote \in Elems(seenJobs[i])

\* C10: while every read and write of the file has succeeded, no id of a run's
\* new-jobs list was in the digest handed to the mail send of an earlier run.
C10_NotifiedAtMostOnce ==
    (pc = "mail" /\ ~ioFailed) => Ids(newJobs) \cap notified = {}

\* A job notified in an earlier run is on the page again and is not new.
C10_Witness ==
    /\ pc = "mail"
    /\ ~ioFailed
    /\ Ids(currentJobs) \cap notified # {}

====
